---- MODULE Spec2Model ----
(***************************************************************************)
(* keepalived lib/memory.c, the _MEM_CHECK_ allocation tracker:            *)
(* keepalived_malloc / keepalived_free / keepalived_realloc over the       *)
(* static alloc_list table and the free_list ring, the final and the       *)
(* on-demand dump, and the underlying C allocator the tracker calls.       *)
(***************************************************************************)
EXTENDS Integers, FiniteSets, Sequences, TLC

(* ---- bounds of the model ---------------------------------------------- *)
MAX_ALLOC_LIST == 3
FREE_LIST_SIZE == 2
NumAddr == 2
MaxSize == 1
NumSites == 1
MaxMallocs == 3
MaxReallocs == 1
MaxResize == 2

(* ---- program constants ------------------------------------------------ *)
CHECK_VAL == 42405
NULL == 0

FREE_SLOT == "FREE_SLOT"
OVERRUN == "OVERRUN"
FREE_NULL == "FREE_NULL"
REALLOC_NULL == "REALLOC_NULL"
FREE_NOT_ALLOC == "FREE_NOT_ALLOC"
REALLOC_NOT_ALLOC == "REALLOC_NOT_ALLOC"
LAST_FREE == "LAST_FREE"
ALLOCATED == "ALLOCATED"

(* ---- value sets -------------------------------------------------------- *)
Addr == 1..NumAddr
Sizes == 0..MaxSize
Sites == 1..NumSites
Rows == 0..(MAX_ALLOC_LIST - 1)
Ring == 0..(FREE_LIST_SIZE - 1)

\* MEMCHECK: (file, func, line) is one call site; a zeroed static entry has site 0
MEMCHECK(t, p, sz, st) == [type |-> t, ptr |-> p, size |-> sz, site |-> st]
ZeroEntry == MEMCHECK(FREE_SLOT, NULL, 0, 0)

\* what one call writes to log_op, as far as the claims read it
NoOutput == [dump |-> "none", verdict |-> "none", sum |-> 0, entries |-> 0,
             badptr |-> 0, overrun |-> 0, sum_error |-> FALSE,
             released |-> <<>>, corrupt |-> FALSE]

VARIABLES
    alloc_list,           \* static MEMCHECK alloc_list[MAX_ALLOC_LIST]
    number_alloc_list,    \* static int number_alloc_list
    n,                    \* static int n
    f,                    \* static int f
    free_list,            \* static MEMCHECK free_list[FREE_LIST_SIZE]
    mem_allocated,        \* size_t mem_allocated
    max_mem_allocated,    \* size_t max_mem_allocated
    num_mallocs,          \* static unsigned num_mallocs
    num_reallocs,         \* static unsigned num_reallocs
    mem_err,              \* MEM_ERR_DETECT_BIT of debug
    skip_mem_check_final, \* static bool skip_mem_check_final
    status,               \* "running", "exited" (exit), "aborted" (assert), "crashed"
    heap,                 \* blocks the C allocator has handed out and not released
    trailer,              \* the unsigned long stored just past each block's user bytes
    ret,                  \* what the most recent call returned
    out,                  \* what that call wrote to log_op
    taken,                \* the rows get_free_alloc_entry returned during that call
    last_free,            \* history: per address, the last matched free of it
                          \* (row, site, matched frees since) until it is handed out again
    hist                  \* history of the run: the last FREE_LIST_SIZE matched frees
                          \* (newest first), the most rows in use at once, and the
                          \* numbers of nil or unmatched calls and of trailer mismatches

vars == <<alloc_list, number_alloc_list, n, f, free_list, mem_allocated,
          max_mem_allocated, num_mallocs, num_reallocs, mem_err,
          skip_mem_check_final, status, heap, trailer,
          ret, out, taken, last_free, hist>>

\* the program state as one record, threaded through the functions below
State == [alloc_list |-> alloc_list, number_alloc_list |-> number_alloc_list,
          n |-> n, f |-> f, free_list |-> free_list,
          mem_allocated |-> mem_allocated,
          max_mem_allocated |-> max_mem_allocated,
          num_mallocs |-> num_mallocs, num_reallocs |-> num_reallocs,
          mem_err |-> mem_err, skip_mem_check_final |-> skip_mem_check_final,
          status |-> status, heap |-> heap,
          trailer |-> trailer, ret |-> NULL, out |-> NoOutput, slot |-> -1,
          taken |-> <<>>]

Commit(s) ==
    /\ alloc_list' = s.alloc_list
    /\ number_alloc_list' = s.number_alloc_list
    /\ n' = s.n
    /\ f' = s.f
    /\ free_list' = s.free_list
    /\ mem_allocated' = s.mem_allocated
    /\ max_mem_allocated' = s.max_mem_allocated
    /\ num_mallocs' = s.num_mallocs
    /\ num_reallocs' = s.num_reallocs
    /\ mem_err' = s.mem_err
    /\ skip_mem_check_final' = s.skip_mem_check_final
    /\ status' = s.status
    /\ heap' = s.heap
    /\ trailer' = s.trailer
    /\ ret' = s.ret
    /\ out' = s.out
    /\ taken' = s.taken

\* the state once main has called mem_log_init and enable_mem_log_termination,
\* which registers keepalived_free_final with atexit
Init ==
    /\ alloc_list = [i \in Rows |-> ZeroEntry]
    /\ number_alloc_list = 0
    /\ n = 0
    /\ f = 0
    /\ free_list = [j \in Ring |-> ZeroEntry]
    /\ mem_allocated = 0
    /\ max_mem_allocated = 0
    /\ num_mallocs = 0
    /\ num_reallocs = 0
    /\ mem_err = FALSE
    /\ skip_mem_check_final = FALSE
    /\ status = "running"
    /\ heap = {}
    /\ trailer = [a \in Addr |-> 0]
    /\ ret = NULL
    /\ out = NoOutput
    /\ taken = <<>>
    /\ last_free = [a \in Addr |-> <<>>]
    /\ hist = [freed |-> <<>>, peak_rows |-> 0, bad_calls |-> 0, overruns |-> 0]

(* ---- the table --------------------------------------------------------- *)

\* the loop taking an OVERRUN row for a free one
FirstFreeRow_RecyclesOverrun(s, avoid) ==
    LET free == {i \in 0..(s.number_alloc_list - 1) :
                    s.alloc_list[i].type \in {FREE_SLOT, OVERRUN} /\ i # avoid}
    IN  IF free = {} THEN s.number_alloc_list
        ELSE CHOOSE i \in free : \A k \in free : i <= k

\* the loop running from the top of the table down: the last FREE_SLOT row
FirstFreeRow_Last(s, avoid) ==
    LET free == {i \in 0..(s.number_alloc_list - 1) :
                    s.alloc_list[i].type = FREE_SLOT /\ i # avoid}
    IN  IF free = {} THEN s.number_alloc_list
        ELSE CHOOSE i \in free : \A k \in free : i >= k

\* the loop of get_free_alloc_entry: the first FREE_SLOT row other than avoid,
\* or number_alloc_list when there is none
FirstFreeRow(s, avoid) ==
    LET free == {i \in 0..(s.number_alloc_list - 1) :
                    s.alloc_list[i].type = FREE_SLOT /\ i # avoid}
    IN  IF free = {} THEN s.number_alloc_list
        ELSE CHOOSE i \in free : \A k \in free : i <= k

\* the assert letting number_alloc_list reach MAX_ALLOC_LIST
AllocListFull_OffByOne(len) == len > MAX_ALLOC_LIST

\* the assert compiled out
AllocListFull_NoAssert(len) == FALSE

\* the assert of get_free_alloc_entry
AllocListFull(len) == len >= MAX_ALLOC_LIST

get_free_alloc_entry(s, avoid) ==
    LET i == FirstFreeRow(s, avoid)
        len == IF i = s.number_alloc_list THEN s.number_alloc_list + 1
               ELSE s.number_alloc_list
    IN  IF AllocListFull(len)
        THEN [s EXCEPT !.number_alloc_list = len, !.status = "aborted", !.slot = i]
        ELSE [s EXCEPT !.number_alloc_list = len, !.slot = i,
                       !.taken = Append(@, i)]

\* the loop of keepalived_free_realloc_common that looks buffer up
FindAllocated(s, buffer) ==
    LET hit == {i \in 0..(s.number_alloc_list - 1) :
                   s.alloc_list[i].type = ALLOCATED /\ s.alloc_list[i].ptr = buffer}
    IN  IF hit = {} THEN s.number_alloc_list
        ELSE CHOOSE i \in hit : \A k \in hit : i <= k

(* ---- the dump ----------------------------------------------------------- *)

RECURSIVE CountRows(_, _, _)
\* the number of rows below len whose type is in types
CountRows(al, len, types) ==
    IF len = 0 THEN 0
    ELSE CountRows(al, len - 1, types)
         + (IF al[len - 1].type \in types THEN 1 ELSE 0)

RECURSIVE SumAllocated(_, _)
\* sum += alloc_list[i].size over the ALLOCATED rows below len
SumAllocated(al, len) ==
    IF len = 0 THEN 0
    ELSE SumAllocated(al, len - 1)
         + (IF al[len - 1].type = ALLOCATED THEN al[len - 1].size ELSE 0)

BadPtrTypes == {REALLOC_NULL, FREE_NOT_ALLOC, REALLOC_NOT_ALLOC, FREE_NULL}

\* the verdict without the overrun count
Verdict_NoOverrun(sum, entries, badptr, overrun) ==
    IF sum # 0 \/ entries # 0 \/ badptr # 0
    THEN "problem" ELSE "safe"

\* the verdict line of the final dump
Verdict(sum, entries, badptr, overrun) ==
    IF sum # 0 \/ entries # 0 \/ badptr # 0 \/ overrun # 0
    THEN "problem" ELSE "safe"

\* keepalived_alloc_log that never consults skip_mem_check_final
keepalived_alloc_log_NoSkip(s, final) ==
    LET badptr == CountRows(s.alloc_list, s.number_alloc_list, BadPtrTypes)
        overrun == CountRows(s.alloc_list, s.number_alloc_list, {OVERRUN})
        sum == SumAllocated(s.alloc_list, s.number_alloc_list)
    IN  [s EXCEPT !.out =
            [@ EXCEPT !.dump = IF final THEN "final" ELSE "current",
                      !.sum = sum,
                      !.entries = s.n,
                      !.badptr = badptr,
                      !.overrun = overrun,
                      !.sum_error = (sum # s.mem_allocated),
                      !.verdict = IF final
                                  THEN Verdict(sum, s.n, badptr, overrun)
                                  ELSE "none"]]

keepalived_alloc_log(s, final) ==
    IF final /\ s.skip_mem_check_final THEN s
    ELSE
      LET badptr == CountRows(s.alloc_list, s.number_alloc_list, BadPtrTypes)
          overrun == CountRows(s.alloc_list, s.number_alloc_list, {OVERRUN})
          sum == SumAllocated(s.alloc_list, s.number_alloc_list)
      IN  [s EXCEPT !.out =
              [@ EXCEPT !.dump = IF final THEN "final" ELSE "current",
                        !.sum = sum,
                        !.entries = s.n,
                        !.badptr = badptr,
                        !.overrun = overrun,
                        !.sum_error = (sum # s.mem_allocated),
                        !.verdict = IF final
                                    THEN Verdict(sum, s.n, badptr, overrun)
                                    ELSE "none"]]

keepalived_free_final(s) == keepalived_alloc_log(s, TRUE)

keepalived_alloc_dump(s) == keepalived_alloc_log(s, FALSE)

\* exit(): the handler registered with atexit runs, then the process is gone
exit(s) == [keepalived_free_final(s) EXCEPT !.status = "exited"]

(* ---- allocation --------------------------------------------------------- *)

Max(a, b) == IF a > b THEN a ELSE b

\* xalloc(size + sizeof(unsigned long)); mem is what malloc returned
xalloc(s, size, mem) ==
    IF mem = NULL THEN exit(s)
    ELSE [s EXCEPT !.heap = @ \cup {mem},
                   !.mem_allocated = @ + size,
                   !.max_mem_allocated = Max(@, s.mem_allocated + size)]

\* the trailer written past the user bytes
Canary(size) == size + CHECK_VAL

keepalived_malloc(s, size, site, mem) ==
    LET s1 == xalloc(s, size, mem)
        s2 == [s1 EXCEPT !.trailer[mem] = Canary(size)]
        s3 == get_free_alloc_entry(s2, -1)
        i == s3.slot
    IN  IF s1.status # "running" THEN s1
        ELSE IF s3.status # "running" THEN s3
        ELSE [s3 EXCEPT !.alloc_list[i] = MEMCHECK(ALLOCATED, mem, size, site),
                        !.n = @ + 1,
                        !.num_mallocs = @ + 1,
                        !.ret = mem]

(* ---- free and realloc --------------------------------------------------- *)

RECURSIVE ScanFreeList_NoWrap(_, _, _, _)
\* the scan stopping at entry 0 instead of wrapping to the end of free_list
ScanFreeList_NoWrap(fl, buffer, j, start) ==
    IF fl[j].ptr = buffer /\ fl[j].type = LAST_FREE
    THEN <<[row |-> fl[j].size, site |-> fl[j].site]>>
    ELSE IF j # 0 THEN ScanFreeList_NoWrap(fl, buffer, j - 1, start) ELSE <<>>

RECURSIVE ScanFreeList(_, _, _, _)
\* the do-while over free_list: from j backwards, wrapping, until start comes
\* round again; the first LAST_FREE entry for buffer, as <<[row, site]>>
ScanFreeList(fl, buffer, j, start) ==
    IF fl[j].ptr = buffer /\ fl[j].type = LAST_FREE
    THEN <<[row |-> fl[j].size, site |-> fl[j].site]>>
    ELSE LET j2 == (IF j # 0 THEN j ELSE FREE_LIST_SIZE) - 1
         IN  IF j2 # start THEN ScanFreeList(fl, buffer, j2, start) ELSE <<>>

\* j = (f ? f : FREE_LIST_SIZE) - 1
ScanStart(s) == (IF s.f # 0 THEN s.f ELSE FREE_LIST_SIZE) - 1

\* CommonNull that records the nil resize and returns NULL without allocating
CommonNull_NoAlloc(s, size, site, mem) ==
    LET s1 == get_free_alloc_entry(s, -1)
        i == s1.slot
    IN  IF s1.status # "running" THEN s1
        ELSE [s1 EXCEPT !.alloc_list[i] =
                            MEMCHECK(IF size = 0 THEN FREE_NULL ELSE REALLOC_NULL,
                                     NULL, 0, site),
                        !.mem_err = TRUE,
                        !.ret = NULL]

\* buffer == NULL
CommonNull(s, size, site, mem) ==
    LET s1 == get_free_alloc_entry(s, -1)
        i == s1.slot
        s2 == [s1 EXCEPT !.alloc_list[i] =
                             MEMCHECK(IF size = 0 THEN FREE_NULL ELSE REALLOC_NULL,
                                      NULL, 0, site),
                         !.mem_err = TRUE]
    IN  IF s1.status # "running" THEN s1
        ELSE IF size = 0 THEN [s2 EXCEPT !.ret = NULL]
        ELSE keepalived_malloc(s2, size, site, mem)

\* CommonNotFound that counts the call as a free: n--
CommonNotFound_Decrements(s, buffer, size, site) ==
    LET s1 == get_free_alloc_entry(s, -1)
        i == s1.slot
    IN  IF s1.status # "running" THEN s1
        ELSE [s1 EXCEPT !.alloc_list[i] =
                            MEMCHECK(IF size = 0 THEN FREE_NOT_ALLOC
                                     ELSE REALLOC_NOT_ALLOC, buffer, size, site),
                        !.mem_err = TRUE,
                        !.n = @ - 1,
                        !.out.released =
                            ScanFreeList(s.free_list, buffer, ScanStart(s), ScanStart(s)),
                        !.ret = NULL]

\* no ALLOCATED row holds buffer
CommonNotFound(s, buffer, size, site) ==
    LET s1 == get_free_alloc_entry(s, -1)
        i == s1.slot
    IN  IF s1.status # "running" THEN s1
        ELSE [s1 EXCEPT !.alloc_list[i] =
                            MEMCHECK(IF size = 0 THEN FREE_NOT_ALLOC
                                     ELSE REALLOC_NOT_ALLOC, buffer, size, site),
                        !.mem_err = TRUE,
                        !.out.released =
                            ScanFreeList(s.free_list, buffer, ScanStart(s), ScanStart(s)),
                        !.ret = NULL]

\* CheckTrailer whose comparison never fails
CheckTrailer_NeverFails(s, i, buffer, size) ==
    IF size = 0 THEN [s EXCEPT !.alloc_list[i].type = FREE_SLOT] ELSE s

\* CheckTrailer that leaves the row of a freed buffer ALLOCATED
CheckTrailer_NoRelease(s, i, buffer, size) ==
    IF s.trailer[buffer] # Canary(s.alloc_list[i].size)
    THEN IF size = 0
         THEN [s EXCEPT !.out.corrupt = TRUE, !.mem_err = TRUE]
         ELSE LET s1 == get_free_alloc_entry(s, -1)
                  j == s1.slot
              IN  IF s1.status # "running" THEN s1
                  ELSE [s1 EXCEPT !.alloc_list[j] =
                                      [s.alloc_list[i] EXCEPT !.type = OVERRUN],
                                  !.out.corrupt = TRUE, !.mem_err = TRUE]
    ELSE s

\* CheckTrailer that marks the row of a freed buffer FREE_SLOT also after a
\* mismatch
CheckTrailer_FreesOverrun(s, i, buffer, size) ==
    IF s.trailer[buffer] # Canary(s.alloc_list[i].size)
    THEN IF size = 0
         THEN [s EXCEPT !.alloc_list[i].type = FREE_SLOT,
                        !.out.corrupt = TRUE, !.mem_err = TRUE]
         ELSE LET s1 == get_free_alloc_entry(s, -1)
                  j == s1.slot
              IN  IF s1.status # "running" THEN s1
                  ELSE [s1 EXCEPT !.alloc_list[j] =
                                      [s.alloc_list[i] EXCEPT !.type = OVERRUN],
                                  !.out.corrupt = TRUE, !.mem_err = TRUE]
    ELSE IF size = 0 THEN [s EXCEPT !.alloc_list[i].type = FREE_SLOT]
    ELSE s

\* CheckTrailer that marks the matched row OVERRUN on a resize as it does on
\* a free
CheckTrailer_OverrunInPlace(s, i, buffer, size) ==
    IF s.trailer[buffer] # Canary(s.alloc_list[i].size)
    THEN [s EXCEPT !.alloc_list[i].type = OVERRUN,
                   !.out.corrupt = TRUE, !.mem_err = TRUE]
    ELSE IF size = 0 THEN [s EXCEPT !.alloc_list[i].type = FREE_SLOT]
    ELSE s

\* the trailer check of row i, and what a mismatch records
CheckTrailer(s, i, buffer, size) ==
    IF s.trailer[buffer] # Canary(s.alloc_list[i].size)
    THEN IF size = 0
         THEN [s EXCEPT !.alloc_list[i].type = OVERRUN,
                        !.out.corrupt = TRUE, !.mem_err = TRUE]
         ELSE LET s1 == get_free_alloc_entry(s, -1)
                  j == s1.slot
              IN  IF s1.status # "running" THEN s1
                  ELSE [s1 EXCEPT !.alloc_list[j] =
                                      [s.alloc_list[i] EXCEPT !.type = OVERRUN],
                                  !.out.corrupt = TRUE, !.mem_err = TRUE]
    ELSE IF size = 0 THEN [s EXCEPT !.alloc_list[i].type = FREE_SLOT]
    ELSE s

\* CommonFree without the n-- that ends it
CommonFree_NoDecrement(s, i, buffer, site) ==
    [s EXCEPT !.heap = @ \ {buffer},
              !.trailer[buffer] = 0,
              !.free_list[s.f] = MEMCHECK(LAST_FREE, buffer, i, site),
              !.f = (@ + 1) % FREE_LIST_SIZE,
              !.ret = NULL]

\* CommonFree that does not advance f, so each push overwrites the newest entry
CommonFree_NoAdvance(s, i, buffer, site) ==
    [s EXCEPT !.heap = @ \ {buffer},
              !.trailer[buffer] = 0,
              !.free_list[s.f] = MEMCHECK(LAST_FREE, buffer, i, site),
              !.n = @ - 1,
              !.ret = NULL]

\* the !size branch of a matched call: free(buffer) and the push on free_list
CommonFree(s, i, buffer, site) ==
    [s EXCEPT !.heap = @ \ {buffer},
              !.trailer[buffer] = 0,
              !.free_list[s.f] = MEMCHECK(LAST_FREE, buffer, i, site),
              !.f = (@ + 1) % FREE_LIST_SIZE,
              !.n = @ - 1,
              !.ret = NULL]

\* CommonRealloc that leaves the old size in the row
CommonRealloc_StaleSize(s, i, buffer, size, site, mem, fault) ==
    LET s1 == [s EXCEPT !.mem_allocated = @ + size,
                        !.max_mem_allocated = Max(@, s.mem_allocated + size)]
        row == MEMCHECK(s.alloc_list[i].type, mem, s.alloc_list[i].size, site)
    IN  IF mem = NULL
        THEN IF fault THEN [s1 EXCEPT !.status = "crashed"]
             ELSE [s1 EXCEPT !.alloc_list[i] = row,
                             !.num_reallocs = @ + 1,
                             !.ret = NULL]
        ELSE [s1 EXCEPT !.heap = (@ \ {buffer}) \cup {mem},
                        !.trailer = [[@ EXCEPT ![buffer] = 0] EXCEPT ![mem] = Canary(size)],
                        !.alloc_list[i] = row,
                        !.num_reallocs = @ + 1,
                        !.ret = mem]

\* the else branch: buffer = realloc(buffer, size + sizeof (unsigned long)).
\* mem is what realloc returned; it is not tested against NULL, so after a
\* failed realloc the trailer store goes through (char *)NULL + size: it
\* either faults or lands somewhere and the function carries on
CommonRealloc(s, i, buffer, size, site, mem, fault) ==
    LET s1 == [s EXCEPT !.mem_allocated = @ + size,
                        !.max_mem_allocated = Max(@, s.mem_allocated + size)]
        row == MEMCHECK(s.alloc_list[i].type, mem, size, site)
    IN  IF mem = NULL
        THEN IF fault THEN [s1 EXCEPT !.status = "crashed"]
             ELSE [s1 EXCEPT !.alloc_list[i] = row,
                             !.num_reallocs = @ + 1,
                             !.ret = NULL]
        ELSE [s1 EXCEPT !.heap = (@ \ {buffer}) \cup {mem},
                        !.trailer = [[@ EXCEPT ![buffer] = 0] EXCEPT ![mem] = Canary(size)],
                        !.alloc_list[i] = row,
                        !.num_reallocs = @ + 1,
                        !.ret = mem]

\* keepalived_free_realloc_common without mem_allocated -= alloc_list[i].size
keepalived_free_realloc_common_NoSubtract(s, buffer, size, site, mem, fault) ==
    LET i == FindAllocated(s, buffer)
        s1 == CheckTrailer(s, i, buffer, size)
    IN  IF buffer = NULL THEN CommonNull(s, size, site, mem)
        ELSE IF i = s.number_alloc_list THEN CommonNotFound(s, buffer, size, site)
        ELSE IF s1.status # "running" THEN s1
        ELSE IF size = 0 THEN CommonFree(s1, i, buffer, site)
        ELSE CommonRealloc(s1, i, buffer, size, site, mem, fault)

keepalived_free_realloc_common(s, buffer, size, site, mem, fault) ==
    LET i == FindAllocated(s, buffer)
        s1 == CheckTrailer(s, i, buffer, size)
        s2 == [s1 EXCEPT !.mem_allocated = @ - s1.alloc_list[i].size]
    IN  IF buffer = NULL THEN CommonNull(s, size, site, mem)
        ELSE IF i = s.number_alloc_list THEN CommonNotFound(s, buffer, size, site)
        ELSE IF s1.status # "running" THEN s1
        ELSE IF size = 0 THEN CommonFree(s2, i, buffer, site)
        ELSE CommonRealloc(s2, i, buffer, size, site, mem, fault)

keepalived_free(s, buffer, site) ==
    keepalived_free_realloc_common(s, buffer, 0, site, NULL, FALSE)

\* keepalived_realloc that returns NULL for a zero size without the free
keepalived_realloc_NoFree(s, buffer, size, site, mem, fault) ==
    IF size = 0
    THEN [s EXCEPT !.ret = NULL]
    ELSE keepalived_free_realloc_common(s, buffer, size, site, mem, fault)

keepalived_realloc(s, buffer, size, site, mem, fault) ==
    IF size = 0
    THEN [keepalived_free(s, buffer, site) EXCEPT !.ret = NULL]
    ELSE keepalived_free_realloc_common(s, buffer, size, site, mem, fault)

skip_mem_dump(s) == [s EXCEPT !.skip_mem_check_final = TRUE]

(* ---- the calls the application makes ------------------------------------ *)

\* a call on p gets past the NULL test and its lookup finds an ALLOCATED row
Tracked(p) ==
    /\ p # NULL
    /\ FindAllocated(State, p) # number_alloc_list

\* what the C allocator may return for a new block: an address not handed out, or NULL
Fresh == (Addr \ heap) \cup {NULL}

Pointers == Addr \cup {NULL}

MallocCall(size, site, mem) ==
    /\ status = "running"
    /\ num_mallocs < MaxMallocs
    /\ Commit(keepalived_malloc(State, size, site, mem))

FreeCall(buffer, site) ==
    /\ status = "running"
    /\ Commit(keepalived_free(State, buffer, site))

ReallocCall(buffer, size, site, mem, fault) ==
    /\ status = "running"
    /\ size # 0 => (num_mallocs < MaxMallocs /\ num_reallocs < MaxReallocs)
    /\ Commit(keepalived_realloc(State, buffer, size, site, mem, fault))

Min(a, b) == IF a < b THEN a ELSE b

\* a matched free of buffer at site: it becomes the last free of buffer, and
\* every other remembered free is one matched free older
NoteFree(buffer, site) ==
    [a \in Addr |->
        IF a = buffer
        THEN <<[row |-> FindAllocated(State, buffer), site |-> site, age |-> 0]>>
        ELSE IF last_free[a] = <<>> THEN <<>>
        ELSE <<[last_free[a][1] EXCEPT !.age = Min(@ + 1, FREE_LIST_SIZE)]>>]

\* the C allocator hands out mem (or nothing, when mem is NULL)
NoteIssued(mem) ==
    [a \in Addr |-> IF a = mem THEN <<>> ELSE last_free[a]]

\* the history after keepalived_free(buffer) / keepalived_realloc(buffer, size)
NoteCall(buffer, size, site, mem) ==
    IF size = 0
    THEN IF Tracked(buffer) THEN NoteFree(buffer, site) ELSE last_free
    ELSE IF buffer = NULL \/ Tracked(buffer) THEN NoteIssued(mem)
    ELSE last_free

\* the rows below len that are in use, whatever their type
RowsInUse(al, len) == Cardinality({i \in Rows : i < len /\ al[i].type # FREE_SLOT})

\* the history after a call: push is <<>> or the one matched free the call
\* made, bad and over tell whether it was a nil or unmatched call and whether
\* it found a trailer mismatch
NoteHist(push, bad, over) ==
    hist' = [freed |-> IF push = <<>> THEN hist.freed
                       ELSE SubSeq(push \o hist.freed, 1,
                                   Min(Len(hist.freed) + 1, FREE_LIST_SIZE)),
             peak_rows |-> Max(hist.peak_rows,
                               RowsInUse(alloc_list', number_alloc_list')),
             bad_calls |-> hist.bad_calls + bad,
             overruns |-> hist.overruns + over]

\* the history after keepalived_free(buffer) / keepalived_realloc(buffer, size)
NoteHistCall(buffer, size, site) ==
    LET i == FindAllocated(State, buffer)
        matched == Tracked(buffer)
    IN  NoteHist(IF matched /\ size = 0
                 THEN <<[ptr |-> buffer, row |-> i, site |-> site]>> ELSE <<>>,
                 IF matched THEN 0 ELSE 1,
                 IF matched /\ trailer[buffer] # Canary(alloc_list[i].size)
                 THEN 1 ELSE 0)

Malloc ==
    \E size \in Sizes, site \in Sites, mem \in Fresh :
        /\ MallocCall(size, site, mem)
        /\ last_free' = NoteIssued(mem)
        /\ NoteHist(<<>>, 0, 0)

Free ==
    \E buffer \in Pointers, site \in Sites :
        /\ FreeCall(buffer, site)
        /\ last_free' = NoteCall(buffer, 0, site, NULL)
        /\ NoteHistCall(buffer, 0, site)

Realloc ==
    \E buffer \in Pointers, size \in Sizes, site \in Sites :
        \E mem \in Fresh \cup ({buffer} \cap heap), fault \in BOOLEAN :
            /\ ReallocCall(buffer, size, site, mem, fault)
            /\ last_free' = NoteCall(buffer, size, site, mem)
            /\ NoteHistCall(buffer, size, site)

\* the application writes past the user bytes of one of its blocks
Overwrite ==
    /\ status = "running"
    /\ \E a \in heap :
          /\ trailer[a] # 0
          /\ trailer' = [trailer EXCEPT ![a] = 0]
    /\ UNCHANGED <<alloc_list, number_alloc_list, n, f, free_list, mem_allocated,
                   max_mem_allocated, num_mallocs, num_reallocs, mem_err,
                   skip_mem_check_final, status, heap,
                   ret, out, taken, last_free, hist>>

AllocDump ==
    /\ status = "running"
    /\ Commit(keepalived_alloc_dump(State))
    /\ UNCHANGED <<last_free, hist>>

SkipMemDump ==
    /\ status = "running"
    /\ Commit(skip_mem_dump(State))
    /\ UNCHANGED <<last_free, hist>>

\* the application returns from main or calls exit
Exit ==
    /\ status = "running"
    /\ Commit(exit(State))
    /\ UNCHANGED <<last_free, hist>>

Next ==
    \/ Malloc
    \/ Free
    \/ Realloc
    \/ Overwrite
    \/ AllocDump
    \/ SkipMemDump
    \/ Exit

Spec == Init /\ [][Next]_vars

(* ---- clean runs --------------------------------------------------------- *)

\* the application frees a pointer it got from the tracker and still holds
CleanFree ==
    \E buffer \in Addr, site \in Sites :
        /\ Tracked(buffer)
        /\ FreeCall(buffer, site)
        /\ last_free' = NoteCall(buffer, 0, site, NULL)
        /\ NoteHistCall(buffer, 0, site)

\* the application resizes such a pointer to a size above zero
CleanRealloc ==
    \E buffer \in Addr, size \in Sizes \ {0}, site \in Sites :
        \E mem \in Fresh \cup ({buffer} \cap heap), fault \in BOOLEAN :
            /\ Tracked(buffer)
            /\ ReallocCall(buffer, size, site, mem, fault)
            /\ last_free' = NoteCall(buffer, size, site, mem)
            /\ NoteHistCall(buffer, size, site)

CleanNext ==
    \/ Malloc
    \/ CleanFree
    \/ CleanRealloc
    \/ AllocDump
    \/ Exit

\* the runs with no misuse: no nil or untracked pointer is passed, no zero
\* resize is made and no trailer is overwritten
SpecClean == Init /\ [][CleanNext]_vars

(* ---- runs that grow and shrink buffers ----------------------------------- *)

ResizeSizes == 0..MaxResize

ResizeMalloc ==
    \E size \in ResizeSizes, site \in Sites, mem \in Addr \ heap :
        /\ MallocCall(size, site, mem)
        /\ last_free' = NoteIssued(mem)
        /\ NoteHist(<<>>, 0, 0)

\* realloc of a tracked pointer succeeds: the block stays where it is or moves
ResizeRealloc ==
    \E buffer \in Addr, size \in ResizeSizes \ {0}, site \in Sites :
        \E mem \in (Addr \ heap) \cup {buffer} :
            /\ Tracked(buffer)
            /\ ReallocCall(buffer, size, site, mem, FALSE)
            /\ last_free' = NoteCall(buffer, size, site, mem)
            /\ NoteHistCall(buffer, size, site)

ResizeNext ==
    \/ ResizeMalloc
    \/ ResizeRealloc
    \/ CleanFree
    \/ Overwrite

\* the runs of allocations, matched resizes to larger and smaller sizes and
\* matched frees, with or without an overwritten trailer
SpecResize == Init /\ [][ResizeNext]_vars

(* ---- state functions the properties read --------------------------------- *)

ErrorTypes == BadPtrTypes \cup {OVERRUN}

RowsOfType(types) ==
    {i \in 0..(number_alloc_list - 1) : alloc_list[i].type \in types}

RECURSIVE SumSizes(_)
SumSizes(rows) ==
    IF rows = {} THEN 0
    ELSE LET i == CHOOSE k \in rows : TRUE
         IN  alloc_list[i].size + SumSizes(rows \ {i})

(* ---- C1 ------------------------------------------------------------------ *)

\* C1: in a run with no misuse the error indicator is never raised and no row
\* is in an error state; a pointer that has been freed has no ALLOCATED row;
\* and once every pointer handed out has been freed, n = 0, the sizes of the
\* ALLOCATED rows sum to 0, mem_allocated = 0 and a final dump says "safe".
CleanRunEndsClean ==
    /\ ~mem_err
    /\ RowsOfType(ErrorTypes) = {}
    /\ status \in {"running", "exited"} =>
          /\ \A p \in Addr \ heap : ~Tracked(p)
          /\ heap = {} =>
                /\ n = 0
                /\ RowsOfType({ALLOCATED}) = {}
                /\ SumSizes(RowsOfType({ALLOCATED})) = 0
                /\ mem_allocated = 0
                /\ out.dump = "final" => out.verdict = "safe"

\* a clean run that allocated, resized and freed, and whose final dump ran
CleanRunWitness ==
    /\ status = "exited"
    /\ heap = {}
    /\ num_mallocs > 1
    /\ num_reallocs > 0
    /\ free_list[1].type = LAST_FREE
    /\ out.dump = "final"
    /\ out.verdict = "safe"

(* ---- C2 ------------------------------------------------------------------ *)

\* the ALLOCATED rows that hold p
AllocatedRowsOf(p) ==
    {i \in 0..(number_alloc_list - 1) :
        alloc_list[i].type = ALLOCATED /\ alloc_list[i].ptr = p}

\* C2: with a C allocator that never hands out an address it has handed out
\* and not yet released (Fresh), no address has two ALLOCATED rows.
OneAllocatedRowPerAddress ==
    \A p \in Addr : Cardinality(AllocatedRowsOf(p)) <= 1

\* an address was freed with a bad trailer, so its row stays OVERRUN, and was
\* handed out again and then moved by a resize: an ALLOCATED row and an
\* OVERRUN row now hold the same address
ReissuedAddressWitness ==
    /\ status = "running"
    /\ num_reallocs > 0
    /\ \E i, j \in 0..(number_alloc_list - 1) :
          /\ alloc_list[i].type = ALLOCATED
          /\ alloc_list[j].type = OVERRUN
          /\ alloc_list[i].ptr = alloc_list[j].ptr
          /\ alloc_list[i].ptr \in Addr

(* ---- C3 ------------------------------------------------------------------ *)

\* C3: while the process has not been terminated number_alloc_list is at most
\* MAX_ALLOC_LIST, every row get_free_alloc_entry returned is a row of the
\* table below number_alloc_list, and no row at or above number_alloc_list
\* was written; a call that runs out of rows ends the process at the assert
\* with the row it was about to take still unwritten.
TableWithinCapacity ==
    /\ status # "aborted" =>
          /\ number_alloc_list <= MAX_ALLOC_LIST
          /\ \A k \in 1..Len(taken) :
                taken[k] \in Rows /\ taken[k] < number_alloc_list
          /\ \A i \in Rows : i >= number_alloc_list => alloc_list[i] = ZeroEntry
    /\ status = "aborted" =>
          /\ number_alloc_list = MAX_ALLOC_LIST
          /\ alloc_list[number_alloc_list - 1] = ZeroEntry

\* the table is full of rows that are never recycled and one more call has
\* ended the process at the assert
CapacityAbortWitness ==
    /\ status = "aborted"
    /\ number_alloc_list = MAX_ALLOC_LIST
    /\ \A i \in 0..(MAX_ALLOC_LIST - 2) : alloc_list[i].type # FREE_SLOT

(* ---- C4 ------------------------------------------------------------------ *)

\* the call took exactly one row and wrote row there, and no other row changed
WroteOneRow(row) ==
    /\ Len(taken') = 1
    /\ alloc_list[taken'[1]].type = FREE_SLOT
    /\ alloc_list' = [alloc_list EXCEPT ![taken'[1]] = row]

\* C4: keepalived_free(h) of an address whose last matched free has not been
\* followed by the allocator handing h out again, when it returns: no
\* ALLOCATED row holds h, the error bit is set, one FREE_NOT_ALLOC row is
\* written, free() is not called, n and mem_allocated keep their values; and
\* if fewer than FREE_LIST_SIZE matched frees came in between, the line
\* "pointer last released at" names the row and the site of that first free.
DoubleFreeIsRecorded ==
    [][\A h \in Addr, site \in Sites :
          (last_free[h] # <<>> /\ FreeCall(h, site) /\ status' = "running") =>
             /\ ~Tracked(h)
             /\ mem_err'
             /\ WroteOneRow(MEMCHECK(FREE_NOT_ALLOC, h, 0, site))
             /\ heap' = heap /\ trailer' = trailer
             /\ n' = n /\ mem_allocated' = mem_allocated
             /\ last_free[h][1].age < FREE_LIST_SIZE =>
                   out'.released = <<[row |-> last_free[h][1].row,
                                      site |-> last_free[h][1].site]>>]_vars

\* a second free of h has just been recorded, one other matched free after
\* the first, and its forensic line was written
DoubleFreeWitness ==
    \E h \in Addr :
        /\ status = "running"
        /\ last_free[h] # <<>>
        /\ last_free[h][1].age = 1
        /\ h \notin heap
        /\ Len(taken) = 1
        /\ alloc_list[taken[1]] = MEMCHECK(FREE_NOT_ALLOC, h, 0, last_free[h][1].site)
        /\ out.released = <<[row |-> last_free[h][1].row, site |-> last_free[h][1].site]>>

(* ---- C5 ------------------------------------------------------------------ *)

\* the row of a tracked pointer
RowOf(p) == FindAllocated(State, p)

\* the trailer of tracked p is not what its row's size says it was
Corrupted(p) == trailer[p] # Canary(alloc_list[RowOf(p)].size)

\* C5: keepalived_free of a tracked pointer whose trailer is no longer
\* size + CHECK_VAL: the row becomes OVERRUN and the corruption is logged,
\* the error bit is set, the process keeps running, free() is called, n drops
\* by one, mem_allocated drops by the row's size, and one entry is pushed on
\* free_list.
OverrunOnFree ==
    [][\A h \in Addr, site \in Sites :
          (Tracked(h) /\ Corrupted(h) /\ FreeCall(h, site)) =>
             /\ alloc_list' = [alloc_list EXCEPT ![RowOf(h)].type = OVERRUN]
             /\ out'.corrupt
             /\ mem_err'
             /\ status' = "running"
             /\ heap' = heap \ {h}
             /\ n' = n - 1
             /\ mem_allocated' = mem_allocated - alloc_list[RowOf(h)].size
             /\ free_list' = [free_list EXCEPT
                                ![f] = MEMCHECK(LAST_FREE, h, RowOf(h), site)]
             /\ f' = (f + 1) % FREE_LIST_SIZE]_vars

\* a buffer whose trailer was overwritten has just been freed
OverrunOnFreeWitness ==
    \E h \in Addr, i \in 0..(number_alloc_list - 1) :
        /\ status = "running"
        /\ out.corrupt
        /\ taken = <<>>
        /\ alloc_list[i].type = OVERRUN /\ alloc_list[i].ptr = h
        /\ alloc_list[i].size > 0
        /\ h \notin heap
        /\ last_free[h] # <<>> /\ last_free[h][1].age = 0 /\ last_free[h][1].row = i

(* ---- C6 ------------------------------------------------------------------ *)

\* C6: keepalived_realloc(p, 0) does to the tracker what keepalived_free(p)
\* does, for nil, tracked (trailer intact or not) and untracked p alike, and
\* returns NULL; for a tracked p, n drops by one and no row is taken.
ZeroReallocIsFree ==
    [][\A p \in Pointers, site \in Sites :
          ReallocCall(p, 0, site, NULL, FALSE) =>
             /\ FreeCall(p, site)
             /\ ret' = NULL
             /\ Tracked(p) => (n' = n - 1 /\ taken' = <<>> /\ p \notin heap')]_vars

\* a tracked pointer has gone through the free path: its row is FREE_SLOT and
\* the newest free_list entry names it
ZeroReallocWitness ==
    \E h \in Addr :
        /\ status = "running"
        /\ ret = NULL
        /\ last_free[h] # <<>> /\ last_free[h][1].age = 0
        /\ alloc_list[last_free[h][1].row].type = FREE_SLOT
        /\ alloc_list[last_free[h][1].row].ptr = h
        /\ free_list[(f + FREE_LIST_SIZE - 1) % FREE_LIST_SIZE].ptr = h
        /\ n = 1

(* ---- C7 ------------------------------------------------------------------ *)

\* C7: keepalived_realloc(NULL, size) with size > 0, when it returns: the
\* result is a block the allocator has just handed out, never NULL; a
\* REALLOC_NULL row and an ALLOCATED row of that size are written and no other
\* row changes; the error bit is set; n and num_mallocs go up by one,
\* mem_allocated by size, and num_reallocs keeps its value.
ReallocNullAllocates ==
    [][\A size \in Sizes \ {0}, site \in Sites, mem \in Pointers :
          (ReallocCall(NULL, size, site, mem, FALSE) /\ status' = "running") =>
             /\ ret' # NULL
             /\ ret' \notin heap
             /\ heap' = heap \cup {ret'}
             /\ trailer'[ret'] = Canary(size)
             /\ Len(taken') = 2
             /\ taken'[1] # taken'[2]
             /\ alloc_list[taken'[1]].type = FREE_SLOT
             /\ alloc_list[taken'[2]].type = FREE_SLOT
             /\ alloc_list' = [alloc_list EXCEPT
                     ![taken'[1]] = MEMCHECK(REALLOC_NULL, NULL, 0, site),
                     ![taken'[2]] = MEMCHECK(ALLOCATED, ret', size, site)]
             /\ mem_err'
             /\ n' = n + 1
             /\ mem_allocated' = mem_allocated + size
             /\ num_mallocs' = num_mallocs + 1
             /\ num_reallocs' = num_reallocs]_vars

\* a resize of nil has just returned a block
ReallocNullWitness ==
    /\ status = "running"
    /\ ret # NULL
    /\ Len(taken) = 2
    /\ alloc_list[taken[1]].type = REALLOC_NULL
    /\ alloc_list[taken[2]] = MEMCHECK(ALLOCATED, ret, alloc_list[taken[2]].size,
                                        alloc_list[taken[1]].site)
    /\ mem_err
    /\ num_reallocs = 0

(* ---- C8 ------------------------------------------------------------------ *)

\* what a call on an unmatched pointer leaves alone
LiveStateUntouched ==
    /\ heap' = heap /\ trailer' = trailer
    /\ n' = n
    /\ mem_allocated' = mem_allocated
    /\ max_mem_allocated' = max_mem_allocated
    /\ num_mallocs' = num_mallocs
    /\ num_reallocs' = num_reallocs
    /\ free_list' = free_list
    /\ f' = f

\* C8: a free, or a resize to a size above zero, of a non-nil pointer that no
\* ALLOCATED row holds, when it returns: exactly one row is written,
\* FREE_NOT_ALLOC or REALLOC_NOT_ALLOC, into a row that was FREE_SLOT; the
\* error bit is set; free()/realloc() is not called; the resize returns NULL;
\* every other row, n, mem_allocated, max_mem_allocated, num_mallocs,
\* num_reallocs, free_list and f keep their values.
UnmatchedLeavesLiveState ==
    [][\A p \in Addr, site \in Sites :
          /\ (~Tracked(p) /\ FreeCall(p, site) /\ status' = "running") =>
                /\ WroteOneRow(MEMCHECK(FREE_NOT_ALLOC, p, 0, site))
                /\ mem_err'
                /\ LiveStateUntouched
          /\ \A size \in Sizes \ {0} :
                (~Tracked(p) /\ ReallocCall(p, size, site, NULL, FALSE)
                   /\ status' = "running") =>
                   /\ WroteOneRow(MEMCHECK(REALLOC_NOT_ALLOC, p, size, site))
                   /\ mem_err'
                   /\ ret' = NULL
                   /\ LiveStateUntouched]_vars

\* a resize of an address no row holds has just been recorded beside a live
\* allocation
UnmatchedWitness ==
    /\ status = "running"
    /\ Len(taken) = 1
    /\ alloc_list[taken[1]].type = REALLOC_NOT_ALLOC
    /\ alloc_list[taken[1]].ptr \in Addr
    /\ ~Tracked(alloc_list[taken[1]].ptr)
    /\ n = 1
    /\ RowsOfType({ALLOCATED}) # {}
    /\ ret = NULL

(* ---- C9 ------------------------------------------------------------------ *)

\* the caller misuses p: nil, held by no ALLOCATED row (never allocated, or
\* freed already), or a buffer whose trailer was overwritten
Misuse(p) == p = NULL \/ ~Tracked(p) \/ Corrupted(p)

\* the rows get_free_alloc_entry can still hand out before its assert fails
FreeRowsLeft ==
    Cardinality(RowsOfType({FREE_SLOT})) + (MAX_ALLOC_LIST - 1 - number_alloc_list)

\* the rows a misusing call takes: a resize of nil takes one for REALLOC_NULL
\* and one for the allocation, a free of a corrupted buffer none, the rest one
RowsNeeded(p, size) ==
    IF p = NULL THEN (IF size = 0 THEN 1 ELSE 2)
    ELSE IF ~Tracked(p) THEN 1
    ELSE IF size = 0 THEN 0 ELSE 1

\* what the underlying malloc or realloc may return to a misusing call when
\* it succeeds; a call on an untracked pointer makes no such call
Returned(p) == IF p = NULL \/ Tracked(p) THEN Addr ELSE {NULL}

\* the call raised the error bit, added one error row to the table and returned
RecordedAndReturned ==
    /\ status' = "running"
    /\ mem_err'
    /\ CountRows(alloc_list', number_alloc_list', ErrorTypes)
          = CountRows(alloc_list, number_alloc_list, ErrorTypes) + 1

FinalVerdict ==
    /\ out.dump = "final" =>
          /\ out.verdict \in {"safe", "problem"}
          /\ out.verdict = "safe" <=>
                /\ RowsOfType({ALLOCATED}) = {}
                /\ RowsOfType(BadPtrTypes) = {}
                /\ RowsOfType({OVERRUN}) = {}
    /\ out.dump = "current" => out.verdict = "none"

\* every block was freed and nothing was misused but one trailer: the final
\* dump ran and found the one OVERRUN row
FinalVerdictWitness ==
    /\ status = "exited"
    /\ out.dump = "final"
    /\ out.verdict = "problem"
    /\ n = 0
    /\ RowsOfType({ALLOCATED}) = {}
    /\ RowsOfType(BadPtrTypes) = {}
    /\ Cardinality(RowsOfType({OVERRUN})) = 1

(* ---- C11 ----------------------------------------------------------------- *)

\* a dump leaves the table, the ring and every counter as they were
DumpChangesNothing ==
    /\ alloc_list' = alloc_list
    /\ number_alloc_list' = number_alloc_list
    /\ n' = n
    /\ f' = f
    /\ free_list' = free_list
    /\ mem_allocated' = mem_allocated
    /\ max_mem_allocated' = max_mem_allocated
    /\ num_mallocs' = num_mallocs
    /\ num_reallocs' = num_reallocs
    /\ mem_err' = mem_err
    /\ heap' = heap
    /\ trailer' = trailer

\* C11: no step clears skip_mem_check_final; once it is set, a process that
\* ends through exit (the application's own exit, or the one xalloc makes)
\* writes nothing in its final dump, while without it the final dump is
\* written; keepalived_alloc_dump writes its report whether the flag is set
\* or not; and neither dump changes the table, the ring or a counter.
FinalDumpSuppression ==
    [][/\ skip_mem_check_final => skip_mem_check_final'
       /\ (status = "running" /\ status' = "exited") =>
             IF skip_mem_check_final
             THEN out' = NoOutput
             ELSE out'.dump = "final" /\ out'.verdict \in {"safe", "problem"}
       /\ Exit => DumpChangesNothing
       /\ AllocDump =>
             /\ out'.dump = "current"
             /\ out'.entries = n
             /\ out'.sum = SumSizes(RowsOfType({ALLOCATED}))
             /\ status' = "running"
             /\ DumpChangesNothing]_vars

\* the flag is set, the table holds a leak and an error row, and the process
\* has ended: its final dump wrote nothing
SuppressedFinalWitness ==
    /\ status = "exited"
    /\ skip_mem_check_final
    /\ out = NoOutput
    /\ n > 0
    /\ mem_err
    /\ RowsOfType(ErrorTypes) # {}

(* ---- C12 ----------------------------------------------------------------- *)

\* the row get_free_alloc_entry would return next, once the call has returned
NextRowTaken ==
    FirstFreeRow([alloc_list |-> alloc_list',
                  number_alloc_list |-> number_alloc_list'], -1)

\* C12 as stated: every keepalived_free of a tracked pointer, its trailer
\* intact or not, leaves the pointer's row FREE_SLOT and open to reuse.
MatchedFreeFreesRow ==
    [][\A h \in Addr, site \in Sites :
          (Tracked(h) /\ FreeCall(h, site)) =>
             /\ alloc_list'[RowOf(h)].type = FREE_SLOT
             /\ NextRowTaken <= RowOf(h)]_vars

\* C12 amended: keepalived_free of a tracked pointer leaves the row FREE_SLOT,
\* and no later row is taken before it, when the trailer was intact; when the
\* trailer did not match, the row is left OVERRUN and the next row taken is
\* another one.
MatchedFreeFreesIntactRow ==
    [][\A h \in Addr, site \in Sites :
          (Tracked(h) /\ FreeCall(h, site)) =>
             IF Corrupted(h)
             THEN /\ alloc_list'[RowOf(h)].type = OVERRUN
                  /\ NextRowTaken # RowOf(h)
             ELSE /\ alloc_list'[RowOf(h)].type = FREE_SLOT
                  /\ NextRowTaken <= RowOf(h)]_vars

\* row 0 held a buffer that was freed with a bad trailer and is OVERRUN; the
\* allocation made after that free went to row 1
OverrunRowNotReusedWitness ==
    /\ status = "running"
    /\ alloc_list[0].type = OVERRUN
    /\ alloc_list[0].ptr \in Addr
    /\ last_free[alloc_list[0].ptr] # <<>>
    /\ last_free[alloc_list[0].ptr][1].row = 0
    /\ alloc_list[1].type = ALLOCATED
    /\ taken = <<1>>
    /\ num_mallocs = 2

(* ---- C13 ----------------------------------------------------------------- *)

\* C13: keepalived_realloc(p, size) with size > 0 of a pointer held by the
\* ALLOCATED row i, when realloc succeeds and the call returns: row i is
\* ALLOCATED with the address realloc returned, the new size and the new call
\* site, the trailer of the new block is size + CHECK_VAL, num_reallocs goes
\* up by one, n and num_mallocs keep their values, mem_allocated changes by
\* size minus the old size, max_mem_allocated becomes the larger of its old
\* value and the new mem_allocated, and free_list and f keep their values;
\* with the old trailer intact no other row changes.
MatchedResize ==
    [][\A p \in Addr, size \in ResizeSizes \ {0}, site \in Sites, mem \in Addr :
          (Tracked(p) /\ ReallocCall(p, size, site, mem, FALSE)
             /\ status' = "running") =>
             /\ alloc_list'[RowOf(p)] = MEMCHECK(ALLOCATED, mem, size, site)
             /\ ret' = mem
             /\ trailer'[mem] = Canary(size)
             /\ num_reallocs' = num_reallocs + 1
             /\ n' = n
             /\ num_mallocs' = num_mallocs
             /\ mem_allocated' = mem_allocated + size - alloc_list[RowOf(p)].size
             /\ max_mem_allocated' = Max(max_mem_allocated, mem_allocated')
             /\ free_list' = free_list
             /\ f' = f
             /\ ~Corrupted(p) =>
                   /\ taken' = <<>>
                   /\ alloc_list' = [alloc_list EXCEPT ![RowOf(p)] =
                                        MEMCHECK(ALLOCATED, mem, size, site)]]_vars

\* a buffer of MaxResize bytes was shrunk and moved: the row holds the new
\* address and size, and the peak stays above what is allocated now
ShrinkWitness ==
    /\ status = "running"
    /\ num_reallocs = 1
    /\ num_mallocs = 1
    /\ n = 1
    /\ ret \in Addr
    /\ alloc_list[0] = MEMCHECK(ALLOCATED, ret, 1, 1)
    /\ trailer[ret] = Canary(1)
    /\ mem_allocated = 1
    /\ max_mem_allocated = MaxResize
    /\ heap = {ret}
    /\ ret # 1

(* ---- C14 ----------------------------------------------------------------- *)

\* the number of OVERRUN rows
OverrunRows == Cardinality(RowsOfType({OVERRUN}))

\* C14: keepalived_realloc(p, size) with size > 0 of a tracked pointer whose
\* trailer does not match, when realloc succeeds and the call returns: the
\* corruption is logged and the error bit set; one row that was FREE_SLOT,
\* not the matched row, becomes an OVERRUN copy of the matched row (old
\* address, old size, the site of the allocation); the matched row is
\* ALLOCATED with the new address, size and site; no other row changes; the
\* new block's trailer matches its row. And keepalived_free of a tracked
\* pointer whose trailer matches logs no corruption and adds no OVERRUN row.
OverrunOnResize ==
    [][/\ \A p \in Addr, size \in ResizeSizes \ {0}, site \in Sites, mem \in Addr :
            (Tracked(p) /\ Corrupted(p) /\ ReallocCall(p, size, site, mem, FALSE)
               /\ status' = "running") =>
               /\ out'.corrupt
               /\ mem_err'
               /\ Len(taken') = 1
               /\ taken'[1] # RowOf(p)
               /\ alloc_list[taken'[1]].type = FREE_SLOT
               /\ alloc_list' = [alloc_list EXCEPT
                       ![taken'[1]] = [alloc_list[RowOf(p)] EXCEPT !.type = OVERRUN],
                       ![RowOf(p)] = MEMCHECK(ALLOCATED, mem, size, site)]
               /\ OverrunRows' = OverrunRows + 1
               /\ ret' = mem
               /\ Tracked(mem)'
               /\ ~Corrupted(mem)'
       /\ \A h \in Addr, site \in Sites :
            (Tracked(h) /\ ~Corrupted(h) /\ FreeCall(h, site)) =>
               /\ ~out'.corrupt
               /\ OverrunRows' = OverrunRows
               /\ mem_err' = mem_err]_vars

\* the one buffer of the run was resized with a bad trailer and then freed
\* with its new trailer intact: one OVERRUN row with the old size, the resized row free
\* again, and the free logged no corruption
OverrunOnResizeWitness ==
    \E i, j \in 0..(number_alloc_list - 1) :
        /\ status = "running"
        /\ num_mallocs = 1
        /\ num_reallocs = 1
        /\ i # j
        /\ alloc_list[i].type = OVERRUN
        /\ alloc_list[i].size = MaxResize
        /\ alloc_list[j].type = FREE_SLOT
        /\ alloc_list[j].size = 1
        /\ OverrunRows = 1
        /\ ~out.corrupt
        /\ mem_err
        /\ n = 0
        /\ heap = {}

(* ---- C15 ----------------------------------------------------------------- *)

\* the position in free_list of the k-th newest push
RingPos(k) == (f + FREE_LIST_SIZE - k) % FREE_LIST_SIZE

\* free_list holds the last FREE_LIST_SIZE matched frees, the newest just
\* below f, and the positions no free has reached are as they started
RingHoldsLastFrees ==
    /\ \A k \in 1..Len(hist.freed) :
          free_list[RingPos(k)] = MEMCHECK(LAST_FREE, hist.freed[k].ptr,
                                           hist.freed[k].row, hist.freed[k].site)
    /\ \A k \in (Len(hist.freed) + 1)..FREE_LIST_SIZE :
          free_list[RingPos(k)] = ZeroEntry

\* the newest of the last FREE_LIST_SIZE matched frees that freed p, as the
\* "pointer last released at" line gives it, or <<>> when none of them did
LastFreedReport(p) ==
    LET ks == {k \in 1..Len(hist.freed) : hist.freed[k].ptr = p}
        k1 == CHOOSE k \in ks : \A k2 \in ks : k <= k2
    IN  IF ks = {} THEN <<>>
        ELSE <<[row |-> hist.freed[k1].row, site |-> hist.freed[k1].site]>>

\* C15: free_list and f change only in a matched free, which writes one entry
\* (the pointer, its row, the call site) at f and advances f by one modulo
\* FREE_LIST_SIZE, so that the ring holds the last FREE_LIST_SIZE matched
\* frees; a free of nil, an unmatched free and a resize push nothing; and an
\* unmatched free or resize of p that returns reports the newest of those
\* frees whose pointer is p, and reports nothing when none of them freed p.
ForensicsRing ==
    [][/\ RingHoldsLastFrees'
       /\ (free_list' # free_list \/ f' # f) =>
             \E h \in Addr, site \in Sites : Tracked(h) /\ FreeCall(h, site)
       /\ \A p \in Pointers, site \in Sites :
             /\ (Tracked(p) /\ FreeCall(p, site)) =>
                   /\ free_list' = [free_list EXCEPT
                                      ![f] = MEMCHECK(LAST_FREE, p, RowOf(p), site)]
                   /\ f' = (f + 1) % FREE_LIST_SIZE
             /\ (p # NULL /\ ~Tracked(p) /\ status' = "running"
                   /\ FreeCall(p, site)) =>
                   out'.released = LastFreedReport(p)
             /\ \A size \in Sizes \ {0} :
                   (p # NULL /\ ~Tracked(p) /\ status' = "running"
                      /\ ReallocCall(p, size, site, NULL, FALSE)) =>
                      out'.released = LastFreedReport(p)]_vars

\* the same address was freed twice from different rows, the ring holds both
\* frees, and a further free of it has just reported the later one
NewestFreeReportedWitness ==
    /\ status = "running"
    /\ Len(hist.freed) = FREE_LIST_SIZE
    /\ hist.freed[1].ptr = hist.freed[2].ptr
    /\ hist.freed[1].row # hist.freed[2].row
    /\ Len(taken) = 1
    /\ alloc_list[taken[1]].type = FREE_NOT_ALLOC
    /\ alloc_list[taken[1]].ptr = hist.freed[1].ptr
    /\ out.released = <<[row |-> hist.freed[1].row, site |-> hist.freed[1].site]>>

(* ---- C16 ----------------------------------------------------------------- *)

\* the lowest row that is FREE_SLOT or lies at or past the end of the table as
\* the call found it, leaving out the rows the call has taken already
LowestOpenRow(used) ==
    LET open == {i \in 0..MAX_ALLOC_LIST :
                    /\ i \notin used
                    /\ (i >= number_alloc_list \/ alloc_list[i].type = FREE_SLOT)}
    IN  CHOOSE i \in open : \A k \in open : i <= k

\* C16: number_alloc_list never decreases; in a call that does not end at the
\* assert, each row taken is the lowest FREE_SLOT row at that moment, or the
\* row at the end of the table when no row below it is FREE_SLOT, a record is
\* written into it, and number_alloc_list grows by one for each row taken at
\* the end and not otherwise; so number_alloc_list is the largest number of
\* rows that were in use at once so far.
SlotSelection ==
    [][\/ Overwrite
       \/ /\ number_alloc_list' >= number_alloc_list
          /\ status' # "aborted" =>
                /\ \A k \in 1..Len(taken') :
                      /\ taken'[k] = LowestOpenRow({taken'[m] : m \in 1..(k - 1)})
                      /\ alloc_list'[taken'[k]].type # FREE_SLOT
                /\ number_alloc_list' = number_alloc_list
                      + Cardinality({k \in 1..Len(taken') :
                                        taken'[k] >= number_alloc_list})
                /\ hist'.peak_rows = number_alloc_list']_vars

\* rows 0 and 1 had both been freed and the third allocation of the run took
\* row 0; the table is still two rows long
LowestRowReusedWitness ==
    /\ status = "running"
    /\ number_alloc_list = 2
    /\ hist.peak_rows = 2
    /\ num_mallocs = 3
    /\ taken = <<0>>
    /\ alloc_list[0].type = ALLOCATED
    /\ alloc_list[1].type = FREE_SLOT
    /\ alloc_list[1].ptr \in Addr

(* ---- C17 ----------------------------------------------------------------- *)

\* C17: a request for a row ends the process only when no row is FREE_SLOT
\* and the table already holds MAX_ALLOC_LIST rows; and an allocation made
\* when no row is FREE_SLOT and the table holds MAX_ALLOC_LIST - 1 rows
\* returns, with the table MAX_ALLOC_LIST rows long and all of them in use.
CapacityBoundary ==
    [][/\ (status = "running" /\ status' = "aborted" /\ taken' = <<>>) =>
             /\ RowsOfType({FREE_SLOT}) = {}
             /\ number_alloc_list = MAX_ALLOC_LIST
       /\ \A size \in Sizes, site \in Sites, mem \in Addr :
             (/\ number_alloc_list = MAX_ALLOC_LIST - 1
              /\ RowsOfType({FREE_SLOT}) = {}
              /\ MallocCall(size, site, mem)) =>
                /\ status' = "running"
                /\ number_alloc_list' = MAX_ALLOC_LIST
                /\ RowsInUse(alloc_list', number_alloc_list') = MAX_ALLOC_LIST]_vars

(* ---- C18 ----------------------------------------------------------------- *)

\* C18: when malloc returns NULL keepalived_malloc ends the process with the
\* table, the trailers and the counters as they were; when realloc returns
\* NULL in a matched keepalived_realloc (trailer intact, size > 0) the call
\* does not return and leaves them as they were too; so no ALLOCATED row of a
\* running process holds NULL, and keepalived_malloc never returns NULL.
AllocatorFailureIsFatal ==
    [][/\ \A size \in Sizes, site \in Sites :
             /\ MallocCall(size, site, NULL) =>
                   /\ status' = "exited"
                   /\ DumpChangesNothing
             /\ \A mem \in Addr :
                   (MallocCall(size, site, mem) /\ status' = "running") =>
                      ret' # NULL
       /\ \A p \in Addr, size \in Sizes \ {0}, site \in Sites, fault \in BOOLEAN :
             (Tracked(p) /\ ~Corrupted(p)
                /\ ReallocCall(p, size, site, NULL, fault)) =>
                /\ status' # "running"
                /\ DumpChangesNothing
       /\ status' = "running" =>
             \A i \in 0..(number_alloc_list' - 1) :
                alloc_list'[i].type = ALLOCATED => alloc_list'[i].ptr # NULL]_vars

(* ---- C19 ----------------------------------------------------------------- *)

\* the counters agree with the table
CountersAgree ==
    /\ n = Cardinality(RowsOfType({ALLOCATED}))
    /\ mem_allocated = SumSizes(RowsOfType({ALLOCATED}))
    /\ max_mem_allocated >= mem_allocated
    /\ out.dump # "none" =>
          /\ ~out.sum_error
          /\ out.sum = mem_allocated
          /\ out.entries = n

\* C19: after every call that returns, and when the process exits, n is the
\* number of ALLOCATED rows, mem_allocated is the sum of their sizes, a dump
\* does not write the "sum of allocated != mem_allocated" line, and
\* max_mem_allocated is at least mem_allocated; and no step lowers
\* max_mem_allocated.
CounterConsistency ==
    [][/\ status' \in {"running", "exited"} => CountersAgree'
       /\ max_mem_allocated' >= max_mem_allocated]_vars

\* after two allocations, one of them freed with a bad trailer, a dump shows
\* one entry of one byte while the peak is two
CountersWitness ==
    /\ status = "running"
    /\ out.dump = "current"
    /\ out.entries = 1
    /\ out.sum = 1
    /\ out.overrun = 1
    /\ n = 1
    /\ mem_allocated = 1
    /\ max_mem_allocated = 2
    /\ mem_err

(* ---- C20 ----------------------------------------------------------------- *)

\* the number of rows a dump counts as bad pointers
BadPtrRows == Cardinality(RowsOfType(BadPtrTypes))

\* C20: no step changes a row that is OVERRUN, FREE_NULL, REALLOC_NULL,
\* FREE_NOT_ALLOC or REALLOC_NOT_ALLOC; so while the process runs, and when
\* it exits, the bad-pointer rows are as many as the nil and unmatched calls
\* made so far and the OVERRUN rows as many as the trailer mismatches found,
\* a dump reports these numbers, the error bit is set exactly when one of
\* them is above zero, and a final dump written with the error bit set says
\* "problem".
ErrorRecordsPermanent ==
    [][/\ \A i \in Rows :
             alloc_list[i].type \in ErrorTypes => alloc_list'[i] = alloc_list[i]
       /\ status' \in {"running", "exited"} =>
             /\ BadPtrRows' = hist'.bad_calls
             /\ OverrunRows' = hist'.overruns
             /\ mem_err' <=> (hist'.bad_calls + hist'.overruns > 0)
             /\ out'.dump # "none" =>
                   /\ out'.badptr = hist'.bad_calls
                   /\ out'.overrun = hist'.overruns
             /\ (mem_err' /\ out'.dump = "final") => out'.verdict = "problem"]_vars

\* a free of nil and, two allocations later, a free with a bad trailer; every
\* block was released, and the final dump counts both and says "problem"
ErrorRecordsWitness ==
    /\ status = "exited"
    /\ out.dump = "final"
    /\ out.verdict = "problem"
    /\ out.badptr = 1
    /\ out.overrun = 1
    /\ out.entries = 0
    /\ hist.bad_calls = 1
    /\ hist.overruns = 1
    /\ num_mallocs = 2
    /\ alloc_list[0].type = FREE_NULL
    /\ alloc_list[1].type = OVERRUN

====
